---------------------------- MODULE Spec2Model ----------------------------
(***************************************************************************)
(* State-machine model of the notmarket-solana launchpad program: one      *)
(* token launch with its bonding curve, SOL vault, user positions and the  *)
(* launchpad configuration, driven by the program's instructions.          *)
(*                                                                         *)
(* Magnitudes.  TLC integers are 32 bits wide, so the on-chain magnitudes  *)
(* (10^9 base units per token, 8*10^8 tokens on the curve, prices scaled   *)
(* by 10^8, 10^9 lamports per SOL, 64-bit words) are reduced: a token has  *)
(* ONE_TOKEN base units, the curve has CurveTokens whole tokens, USD       *)
(* amounts are scaled by USD_SCALE, a SOL has LAMPORTS_PER_SOL lamports    *)
(* and an unsigned word holds values up to U64_MAX.  The price ratio       *)
(* END_PRICE_USD / START_PRICE_USD, the rent-exempt minimum, the 10000     *)
(* basis points and the u16 width keep their program values.  The f64      *)
(* arithmetic of the calculator is modelled in fixed point with FP_SCALE   *)
(* fractional units, truncating where the program casts to u64.            *)
(***************************************************************************)
EXTENDS Integers, Sequences, FiniteSets, TLC

VARIABLES
    config,               \* LaunchpadConfig account
    token_launch,         \* TokenLaunch account
    bonding_curve,        \* BondingCurve account
    user_position,        \* UserPosition accounts, one per user
    sol_vault,            \* lamports held by the sol_vault PDA
    curve_token_account,  \* tokens held by the curve's token account
    outcome,              \* the instruction just processed and its result
    calc                  \* calculator call under test (SpecCalc only)

vars == <<config, token_launch, bonding_curve, user_position, sol_vault,
          curve_token_account, outcome, calc>>

---------------------------------------------------------------------------
(* Bounds of the model *)

\* whole tokens sold on the curve (the program sells 800 million)
CurveTokens == 2

\* committed trades after which no further trade is explored
MaxTrades == 2

---------------------------------------------------------------------------
(* Program constants, reduced as described above *)

\* base units per token: as in the program, more than END_PRICE_USD /
\* START_PRICE_USD, so that a price per base unit is below any price per token
ONE_TOKEN == 20
CURVE_SUPPLY == CurveTokens * ONE_TOKEN
LP_SUPPLY == ONE_TOKEN
TOTAL_SUPPLY == CURVE_SUPPLY + LP_SUPPLY
GRADUATION_USD == 30
START_PRICE_USD == 420
END_PRICE_USD == 6900
USD_SCALE == 100
LAMPORTS_PER_SOL == 10
RENT_EXEMPT_MINIMUM == 890880
BPS_DENOMINATOR == 10000
MAX_FEE_BPS == 1000
MAX_URI_LEN == 200
MAX_STALENESS == 60
U64_MAX == 16777215
U16_MODULUS == 65536

\* fixed-point resolution standing for the f64 mantissa
FP_SCALE == 10000
\* ln(END_PRICE_USD / START_PRICE_USD) = 2.79902..., in FP_SCALE units
LN_PRICE_RATIO == 27990
\* terms of the exponential series
EXP_TERMS == 20

Users == {"alice", "bob"}
Creator == "creator"
Signers == Users \cup {Creator}
Recipients == {"treasury", "other"}

---------------------------------------------------------------------------
(* Result<T> *)

Ok(v) == [err |-> "Ok", val |-> v]
Err(e) == [err |-> e, val |-> 0]

Min(a, b) == IF a < b THEN a ELSE b

\* floor(a * b / c) without leaving 32 bits (a, b >= 0, c > 0)
MulDiv(a, b, c) == (a \div c) * b + (((a % c) * b) \div c)

\* u64::checked_mul
checked_mul(a, b) ==
    IF b # 0 /\ a > U64_MAX \div b THEN Err("MathOverflow") ELSE Ok(a * b)

\* u64::checked_add
checked_add(a, b) ==
    IF a > U64_MAX - b THEN Err("MathOverflow") ELSE Ok(a + b)

\* u64::checked_sub
checked_sub(a, b) ==
    IF a < b THEN Err("MathOverflow") ELSE Ok(a - b)

\* u64::checked_div
checked_div(a, b) ==
    IF b = 0 THEN Err("MathOverflow") ELSE Ok(a \div b)

---------------------------------------------------------------------------
(* BondingCurveCalculator *)

\* amount with decimals -> whole token count
to_token_count(amount_with_decimals) == amount_with_decimals \div ONE_TOKEN

RECURSIVE ExpSeries(_, _, _, _)
ExpSeries(x, i, term, result) ==
    IF i > EXP_TERMS THEN result
    ELSE LET t == ((term * x) \div i) \div FP_SCALE
         IN  IF t = 0 THEN result ELSE ExpSeries(x, i + 1, t, result + t)

\* variant: the series is cut after its linear term
Exp_first_order(x) == FP_SCALE + x

\* e^(x / FP_SCALE), in FP_SCALE units
Exp(x) == ExpSeries(x, 1, FP_SCALE, FP_SCALE)

\* growth * x for growth = ln(r) / n, in FP_SCALE units
GrowthTimes(x) == (LN_PRICE_RATIO * x) \div to_token_count(CURVE_SUPPLY)

\* variant: the price does not grow with supply
calculate_price_lossy_flat(x) == FP_SCALE

\* ExponentialBondingCurve::calculate_price_lossy(x) / base = e^(growth * x)
calculate_price_lossy(x) == Exp(GrowthTimes(x))

\* `value as u64` for the f64 value num / den (num >= 0): NaN casts to 0,
\* +infinity and anything above the word saturate
F64AsU64(num, mul, den) ==
    IF den = 0 THEN (IF num = 0 THEN 0 ELSE U64_MAX)
    ELSE Min(MulDiv(num, mul, den), U64_MAX)

\* variant: a cost of zero stays zero
MinimumPrice_none(lamports) == lamports

\* "Ensure minimum price to avoid 0"
MinimumPrice(lamports) == IF lamports = 0 THEN 1 ELSE lamports

\* variant: an amount of zero is priced like any other
calculate_buy_price_any_amount(tokens_sold, amount, sol_price_usd) ==
    IF tokens_sold + amount > CURVE_SUPPLY THEN Err("InsufficientSupply")
    ELSE LET s == to_token_count(tokens_sold)
             q == to_token_count(amount)
             cost_num == START_PRICE_USD * to_token_count(CURVE_SUPPLY)
                            * (calculate_price_lossy(s + q) - calculate_price_lossy(s))
         IN  Ok(MinimumPrice(F64AsU64(cost_num, LAMPORTS_PER_SOL,
                                      LN_PRICE_RATIO * sol_price_usd)))

calculate_buy_price(tokens_sold, amount, sol_price_usd) ==
    IF amount = 0 THEN Err("InvalidAmount")
    ELSE IF checked_add(tokens_sold, amount).err # "Ok" THEN Err("MathOverflow")
    ELSE IF tokens_sold + amount > CURVE_SUPPLY THEN Err("InsufficientSupply")
    ELSE LET s == to_token_count(tokens_sold)
             q == to_token_count(amount)
             price_at_s == calculate_price_lossy(s)
             price_at_s_plus_q == calculate_price_lossy(s + q)
             \* cost_usd = (1 / growth) * (price_at_s_plus_q - price_at_s)
             \*          = cost_num / LN_PRICE_RATIO   (USD_SCALE units)
             cost_num == START_PRICE_USD * to_token_count(CURVE_SUPPLY)
                            * (price_at_s_plus_q - price_at_s)
             lamports == F64AsU64(cost_num, LAMPORTS_PER_SOL,
                                  LN_PRICE_RATIO * sol_price_usd)
         IN  Ok(MinimumPrice(lamports))

\* variant: the sale is priced from the current tokens_sold upwards
calculate_sell_price_at_current(tokens_sold, amount, sol_price_usd) ==
    IF amount = 0 THEN Err("InvalidAmount")
    ELSE IF ~(tokens_sold >= amount) THEN Err("InsufficientSupply")
    ELSE calculate_buy_price(tokens_sold, amount, sol_price_usd)

calculate_sell_price(tokens_sold, amount, sol_price_usd) ==
    IF amount = 0 THEN Err("InvalidAmount")
    ELSE IF ~(tokens_sold >= amount) THEN Err("InsufficientSupply")
    ELSE LET new_tokens_sold == checked_sub(tokens_sold, amount)
         IN  IF new_tokens_sold.err # "Ok" THEN Err("MathOverflow")
             ELSE calculate_buy_price(new_tokens_sold.val, amount, sol_price_usd)

\* variant: the price is read off the curve from its far end
get_spot_price_reversed(tokens_sold, sol_price_usd) ==
    Ok(MinimumPrice(F64AsU64(
        START_PRICE_USD
            * calculate_price_lossy(to_token_count(CURVE_SUPPLY) - to_token_count(tokens_sold)),
        LAMPORTS_PER_SOL, FP_SCALE * sol_price_usd)))

get_spot_price(tokens_sold, sol_price_usd) ==
    LET tokens_sold_count == to_token_count(tokens_sold)
        \* price_usd = price_num / FP_SCALE   (USD_SCALE units)
        price_num == START_PRICE_USD * calculate_price_lossy(tokens_sold_count)
        lamports == F64AsU64(price_num, LAMPORTS_PER_SOL, FP_SCALE * sol_price_usd)
    IN  Ok(MinimumPrice(lamports))

\* variant: an average below the spot price is an error
calculate_slippage_unclamped(tokens_sold, amount, sol_price_usd) ==
    LET spot_price == get_spot_price(tokens_sold, sol_price_usd)
        total_cost == calculate_buy_price(tokens_sold, amount, sol_price_usd)
    IN  IF total_cost.err # "Ok" THEN total_cost
        ELSE LET diff == checked_sub(total_cost.val \div amount, spot_price.val)
             IN  IF diff.err # "Ok" THEN diff
                 ELSE Ok(((diff.val * BPS_DENOMINATOR) \div spot_price.val) % U16_MODULUS)

calculate_slippage(tokens_sold, amount, sol_price_usd) ==
    LET spot_price == get_spot_price(tokens_sold, sol_price_usd)
        total_cost == calculate_buy_price(tokens_sold, amount, sol_price_usd)
    IN  IF spot_price.err # "Ok" THEN spot_price
        ELSE IF total_cost.err # "Ok" THEN total_cost
        ELSE LET average_price == checked_div(total_cost.val, amount)
             IN  IF average_price.err # "Ok" THEN average_price
                 ELSE IF spot_price.val = 0 THEN Ok(0)
                 ELSE LET diff == checked_sub(average_price.val, spot_price.val)
                          clamped == IF diff.err = "Ok" THEN diff.val ELSE 0
                          scaled == checked_mul(clamped, BPS_DENOMINATOR)
                      IN  IF scaled.err # "Ok" THEN scaled
                          ELSE Ok((scaled.val \div spot_price.val) % U16_MODULUS)

calculate_usd_raised(sol_reserve, sol_price_usd) ==
    \* the u128 product of two u64 cannot overflow; `as u64` keeps the low word
    Ok(MulDiv(sol_reserve, sol_price_usd, LAMPORTS_PER_SOL) % (U64_MAX + 1))

---------------------------------------------------------------------------
(* state.rs *)

\* variant: either condition is enough
should_graduate_either(bc) ==
    IF bc.is_graduated THEN FALSE
    ELSE \/ bc.tokens_sold >= CURVE_SUPPLY
         \/ MulDiv(bc.sol_reserve, bc.sol_price_usd, LAMPORTS_PER_SOL)
                >= GRADUATION_USD * USD_SCALE

\* BondingCurve::should_graduate(&self)
should_graduate(bc) ==
    IF bc.is_graduated THEN FALSE
    ELSE LET tokens_sold_check == bc.tokens_sold >= CURVE_SUPPLY
             \* u128 arithmetic: neither product can overflow
             usd_raised == MulDiv(bc.sol_reserve, bc.sol_price_usd, LAMPORTS_PER_SOL)
             usd_threshold == GRADUATION_USD * USD_SCALE
         IN  tokens_sold_check /\ usd_raised >= usd_threshold

---------------------------------------------------------------------------
(* pyth_price.rs: a price feed is [price, exponent, age] *)

USD_DECIMALS == 2

RECURSIVE Pow10(_)
Pow10(e) == IF e = 0 THEN 1 ELSE 10 * Pow10(e - 1)

\* PythPriceReader::get_sol_price_usd
get_sol_price_usd(feed) ==
    IF ~(feed.price > 0) THEN Err("InvalidPrice")
    ELSE LET abs_exponent == -feed.exponent
             scaled ==
                IF feed.exponent >= 0
                THEN LET m == checked_mul(feed.price, Pow10(feed.exponent))
                     IN  IF m.err # "Ok" THEN m ELSE checked_mul(m.val, USD_SCALE)
                ELSE IF abs_exponent <= USD_DECIMALS
                     THEN checked_mul(feed.price, Pow10(USD_DECIMALS - abs_exponent))
                     ELSE checked_div(feed.price, Pow10(abs_exponent - USD_DECIMALS))
         IN  IF scaled.err # "Ok" THEN scaled
             ELSE IF ~(scaled.val > 0) THEN Err("InvalidPrice")
             ELSE scaled

\* PythPriceReader::is_price_fresh(feed, max_staleness_seconds)
is_price_fresh(feed, max_staleness_seconds) ==
    feed.age >= 0 /\ feed.age <= max_staleness_seconds

---------------------------------------------------------------------------
(* Accounts of one instruction: the working copies the handler mutates *)

Accounts == [config |-> config, token_launch |-> token_launch,
             bonding_curve |-> bonding_curve, user_position |-> user_position,
             sol_vault |-> sol_vault, curve_token_account |-> curve_token_account]

\* result of a handler: error code, accounts as the handler left them,
\* lamport value computed (cost or proceeds) and fee
Done(e, a, v, f) == [err |-> e, accounts |-> a, value |-> v, fee |-> f]

\* variant: the accounts are persisted whatever the handler returned
Committed_always(before, r) == r.accounts

\* The runtime persists the accounts of an instruction that returned Ok and
\* discards every change of one that returned an error (`?` in lib.rs)
Committed(before, r) == IF r.err = "Ok" THEN r.accounts ELSE before

---------------------------------------------------------------------------
(* trading.rs *)

\* variant: the curve's constraint is absent
BuyTokens_constraints_active_only(a) ==
    IF ~a.token_launch.is_active THEN "TradingInactive" ELSE "Ok"

\* #[derive(Accounts)] BuyTokens: constraints in field order
BuyTokens_constraints(a) ==
    IF ~a.token_launch.is_active THEN "TradingInactive"
    ELSE IF a.bonding_curve.is_graduated THEN "CurveGraduated"
    ELSE "Ok"

\* variant: a graduated curve still takes sells
SellTokens_constraints_graduated_too(a, seller) ==
    IF ~a.user_position[seller].initialized THEN "AccountNotInitialized"
    ELSE IF ~a.token_launch.is_active THEN "TradingInactive"
    ELSE "Ok"

\* #[derive(Accounts)] SellTokens: accounts are loaded, then constraints in
\* field order; the seller's token account holds the position's tokens
SellTokens_constraints(a, seller) ==
    IF ~a.user_position[seller].initialized THEN "AccountNotInitialized"
    ELSE IF ~a.token_launch.is_active THEN "TradingInactive"
    ELSE IF a.bonding_curve.is_graduated THEN "CurveGraduated"
    ELSE "Ok"

\* variant: a fresh price prices the trade but is not stored
ReadPrice_not_stored(bc, feed) ==
    IF is_price_fresh(feed, MAX_STALENESS)
    THEN LET fresh_price == get_sol_price_usd(feed)
         IN  IF fresh_price.err # "Ok" THEN [err |-> fresh_price.err, price |-> 0, bc |-> bc]
             ELSE [err |-> "Ok", price |-> fresh_price.val, bc |-> bc]
    ELSE IF ~(bc.sol_price_usd > 0) THEN [err |-> "InvalidPrice", price |-> 0, bc |-> bc]
    ELSE [err |-> "Ok", price |-> bc.sol_price_usd, bc |-> bc]

\* lines 190-204 and 385-399: the price the trade uses, and the curve with
\* the fresh price stored
ReadPrice(bc, feed) ==
    IF is_price_fresh(feed, MAX_STALENESS)
    THEN LET fresh_price == get_sol_price_usd(feed)
         IN  IF fresh_price.err # "Ok" THEN [err |-> fresh_price.err, price |-> 0, bc |-> bc]
             ELSE [err |-> "Ok", price |-> fresh_price.val,
                   bc |-> [bc EXCEPT !.sol_price_usd = fresh_price.val]]
    ELSE LET backup_price == bc.sol_price_usd
         IN  IF ~(backup_price > 0) THEN [err |-> "InvalidPrice", price |-> 0, bc |-> bc]
             ELSE [err |-> "Ok", price |-> backup_price, bc |-> bc]

\* cost * platform_fee_bps / 10000
PlatformFee(value, platform_fee_bps) ==
    LET m == checked_mul(value, platform_fee_bps)
    IN  IF m.err # "Ok" THEN m ELSE checked_div(m.val, BPS_DENOMINATOR)

\* variant: the vault is not topped up to the rent-exempt minimum
AmountToTransfer_no_top_up(vault_lamports, cost) == Ok(cost)

\* lines 229-238: lamports moved from the buyer to the vault
AmountToTransfer(vault_lamports, cost) ==
    IF vault_lamports < RENT_EXEMPT_MINIMUM
    THEN checked_add(cost, RENT_EXEMPT_MINIMUM - vault_lamports)
    ELSE Ok(cost)

\* variant: a buy leaves token_reserve as it was
BuyCurveUpdate_reserve_kept(bc, amount, cost) ==
    [err |-> "Ok",
     bc |-> [bc EXCEPT !.sol_reserve = bc.sol_reserve + cost,
                       !.tokens_sold = bc.tokens_sold + amount,
                       !.total_volume = bc.total_volume + cost,
                       !.trade_count = bc.trade_count + 1]]

\* lines 291-306: bonding curve state after a buy; Err on overflow
BuyCurveUpdate(bc, amount, cost) ==
    LET sol_reserve == checked_add(bc.sol_reserve, cost)
        token_reserve == checked_sub(bc.token_reserve, amount)
        tokens_sold == checked_add(bc.tokens_sold, amount)
        total_volume == checked_add(bc.total_volume, cost)
        trade_count == checked_add(bc.trade_count, 1)
    IN  IF \E r \in {sol_reserve, token_reserve, tokens_sold, total_volume, trade_count} :
               r.err # "Ok"
        THEN [err |-> "MathOverflow", bc |-> bc]
        ELSE [err |-> "Ok",
              bc |-> [bc EXCEPT !.sol_reserve = sol_reserve.val,
                                !.token_reserve = token_reserve.val,
                                !.tokens_sold = tokens_sold.val,
                                !.total_volume = total_volume.val,
                                !.trade_count = trade_count.val]]

\* lines 313-334: the buyer's position after a buy
BuyPositionUpdate(up, amount, total_cost) ==
    LET p == IF ~up.initialized
             THEN [initialized |-> TRUE, token_amount |-> 0, sol_invested |-> 0,
                   sol_received |-> 0, buy_count |-> 0, sell_count |-> 0]
             ELSE up
        token_amount == checked_add(p.token_amount, amount)
        sol_invested == checked_add(p.sol_invested, total_cost)
        buy_count == checked_add(p.buy_count, 1)
    IN  IF \E r \in {token_amount, sol_invested, buy_count} : r.err # "Ok"
        THEN [err |-> "MathOverflow", up |-> up]
        ELSE [err |-> "Ok",
              up |-> [p EXCEPT !.token_amount = token_amount.val,
                               !.sol_invested = sol_invested.val,
                               !.buy_count = buy_count.val]]

\* lines 356-371: the graduation check after a buy
\* variant: the buy does not evaluate graduation
Graduate_never(bc) == bc

Graduate(bc) == IF should_graduate(bc) THEN [bc EXCEPT !.is_graduated = TRUE] ELSE bc

\* BuyTokens::execute, lines 313-371: user position, then graduation
BuyTokens_execute_position(a, buyer, cost, fee, pu) ==
    IF pu.err # "Ok" THEN Done(pu.err, a, cost, fee)
    ELSE Done("Ok", [a EXCEPT !.user_position[buyer] = pu.up,
                              !.bonding_curve = Graduate(a.bonding_curve)],
              cost, fee)

\* BuyTokens::execute, lines 291-311: bonding curve and circulating supply
BuyTokens_execute_curve(a, buyer, amount, cost, fee, cu) ==
    IF cu.err # "Ok" THEN Done(cu.err, a, cost, fee)
    ELSE IF checked_add(a.token_launch.circulating_supply, amount).err # "Ok"
    THEN Done("MathOverflow", [a EXCEPT !.bonding_curve = cu.bc], cost, fee)
    ELSE BuyTokens_execute_position(
             [a EXCEPT !.bonding_curve = cu.bc,
                       !.token_launch.circulating_supply = @ + amount],
             buyer, cost, fee,
             BuyPositionUpdate(a.user_position[buyer], amount, cost + fee))

\* variant: the platform fee is booked into the reserve with the cost
BuyTokens_execute_transfers_fee_reserved(a, buyer, amount, cost, fee, amount_to_transfer) ==
    IF amount_to_transfer.err # "Ok" THEN Done(amount_to_transfer.err, a, cost, fee)
    ELSE BuyTokens_execute_curve(
             [a EXCEPT !.sol_vault = @ + amount_to_transfer.val,
                       !.curve_token_account = @ - amount],
             buyer, amount, cost, fee,
             BuyCurveUpdate(a.bonding_curve, amount, cost + fee))

\* BuyTokens::execute, lines 229-289: SOL to the vault and the fee recipient,
\* tokens to the buyer
BuyTokens_execute_transfers(a, buyer, amount, cost, fee, amount_to_transfer) ==
    IF amount_to_transfer.err # "Ok" THEN Done(amount_to_transfer.err, a, cost, fee)
    ELSE IF \/ checked_add(a.sol_vault, amount_to_transfer.val).err # "Ok"
            \/ checked_sub(a.curve_token_account, amount).err # "Ok"
    THEN Done("TransferFailed", a, cost, fee)
    ELSE BuyTokens_execute_curve(
             [a EXCEPT !.sol_vault = @ + amount_to_transfer.val,
                       !.curve_token_account = @ - amount],
             buyer, amount, cost, fee,
             BuyCurveUpdate(a.bonding_curve, amount, cost))

\* variant: the total cost is not compared with the buyer's bound
BuyTokens_execute_fee_unbounded(a, buyer, amount, max_sol_cost, cost, fee) ==
    IF fee.err # "Ok" THEN Done(fee.err, a, cost, 0)
    ELSE BuyTokens_execute_transfers(a, buyer, amount, cost, fee.val,
                                     AmountToTransfer(a.sol_vault, cost))

\* BuyTokens::execute, lines 213-227: fee, total cost and the caller's bound
BuyTokens_execute_fee(a, buyer, amount, max_sol_cost, cost, fee) ==
    IF fee.err # "Ok" THEN Done(fee.err, a, cost, 0)
    ELSE IF checked_add(cost, fee.val).err # "Ok"
    THEN Done("MathOverflow", a, cost, fee.val)
    ELSE IF ~(cost + fee.val <= max_sol_cost)
    THEN Done("SlippageExceeded", a, cost, fee.val)
    ELSE BuyTokens_execute_transfers(a, buyer, amount, cost, fee.val,
                                     AmountToTransfer(a.sol_vault, cost))

\* BuyTokens::execute, lines 206-211: cost from the bonding curve
BuyTokens_execute_cost(a, buyer, amount, max_sol_cost, cost) ==
    IF cost.err # "Ok" THEN Done(cost.err, a, 0, 0)
    ELSE BuyTokens_execute_fee(a, buyer, amount, max_sol_cost, cost.val,
                               PlatformFee(cost.val, a.config.platform_fee_bps))

\* variant: the cost is taken at the start of the curve, not at the current
\* supply
BuyTokens_execute_price_from_start(a, buyer, amount, max_sol_cost, rp) ==
    IF rp.err # "Ok" THEN Done(rp.err, a, 0, 0)
    ELSE BuyTokens_execute_cost(
             [a EXCEPT !.bonding_curve = rp.bc], buyer, amount, max_sol_cost,
             calculate_buy_price(0, amount, rp.price))

\* BuyTokens::execute, lines 190-204: the price is read and, if fresh, stored
BuyTokens_execute_price(a, buyer, amount, max_sol_cost, rp) ==
    IF rp.err # "Ok" THEN Done(rp.err, a, 0, 0)
    ELSE BuyTokens_execute_cost(
             [a EXCEPT !.bonding_curve = rp.bc], buyer, amount, max_sol_cost,
             calculate_buy_price(rp.bc.tokens_sold, amount, rp.price))

\* variant: the curve's token reserve is not compared with the amount
BuyTokens_execute_any_reserve(a, buyer, amount, max_sol_cost, feed) ==
    IF ~(amount > 0) THEN Done("InvalidAmount", a, 0, 0)
    ELSE BuyTokens_execute_price(a, buyer, amount, max_sol_cost,
                                 ReadPrice(a.bonding_curve, feed))

\* BuyTokens::execute
BuyTokens_execute(a, buyer, amount, max_sol_cost, feed) ==
    IF ~(amount > 0) THEN Done("InvalidAmount", a, 0, 0)
    ELSE IF ~(a.bonding_curve.token_reserve >= amount)
    THEN Done("InsufficientLiquidity", a, 0, 0)
    ELSE BuyTokens_execute_price(a, buyer, amount, max_sol_cost,
                                 ReadPrice(a.bonding_curve, feed))

\* variant: a sell counts the tokens as sold once more
SellCurveUpdate_adding(bc, amount, proceeds) ==
    [err |-> "Ok",
     bc |-> [bc EXCEPT !.sol_reserve = bc.sol_reserve - proceeds,
                       !.token_reserve = bc.token_reserve + amount,
                       !.tokens_sold = bc.tokens_sold + amount,
                       !.total_volume = bc.total_volume + proceeds,
                       !.trade_count = bc.trade_count + 1]]

\* lines 481-496: bonding curve state after a sell; Err on overflow
SellCurveUpdate(bc, amount, proceeds) ==
    LET sol_reserve == checked_sub(bc.sol_reserve, proceeds)
        token_reserve == checked_add(bc.token_reserve, amount)
        tokens_sold == checked_sub(bc.tokens_sold, amount)
        total_volume == checked_add(bc.total_volume, proceeds)
        trade_count == checked_add(bc.trade_count, 1)
    IN  IF \E r \in {sol_reserve, token_reserve, tokens_sold, total_volume, trade_count} :
               r.err # "Ok"
        THEN [err |-> "MathOverflow", bc |-> bc]
        ELSE [err |-> "Ok",
              bc |-> [bc EXCEPT !.sol_reserve = sol_reserve.val,
                                !.token_reserve = token_reserve.val,
                                !.tokens_sold = tokens_sold.val,
                                !.total_volume = total_volume.val,
                                !.trade_count = trade_count.val]]

\* lines 503-513: the seller's position after a sell
SellPositionUpdate(up, amount, net_proceeds) ==
    LET token_amount == checked_sub(up.token_amount, amount)
        sol_received == checked_add(up.sol_received, net_proceeds)
        sell_count == checked_add(up.sell_count, 1)
    IN  IF \E r \in {token_amount, sol_received, sell_count} : r.err # "Ok"
        THEN [err |-> "MathOverflow", up |-> up]
        ELSE [err |-> "Ok",
              up |-> [up EXCEPT !.token_amount = token_amount.val,
                                !.sol_received = sol_received.val,
                                !.sell_count = sell_count.val]]

\* variant: the reserve is not compared with the proceeds
SellChecks_bound_only(bc, proceeds, net_proceeds, min_sol_output) ==
    IF ~(net_proceeds >= min_sol_output) THEN "SlippageExceeded" ELSE "Ok"

\* lines 419-426: the caller's bound, then the reserve
SellChecks(bc, proceeds, net_proceeds, min_sol_output) ==
    IF ~(net_proceeds >= min_sol_output) THEN "SlippageExceeded"
    ELSE IF ~(bc.sol_reserve >= proceeds) THEN "InsufficientLiquidity"
    ELSE "Ok"

\* SellTokens::execute, lines 503-513: user position
SellTokens_execute_position(a, seller, proceeds, fee, pu) ==
    IF pu.err # "Ok" THEN Done(pu.err, a, proceeds, fee)
    ELSE Done("Ok", [a EXCEPT !.user_position[seller] = pu.up], proceeds, fee)

\* SellTokens::execute, lines 481-501: bonding curve and circulating supply
SellTokens_execute_curve(a, seller, amount, proceeds, fee, cu) ==
    IF cu.err # "Ok" THEN Done(cu.err, a, proceeds, fee)
    ELSE IF checked_sub(a.token_launch.circulating_supply, amount).err # "Ok"
    THEN Done("MathOverflow", [a EXCEPT !.bonding_curve = cu.bc], proceeds, fee)
    ELSE SellTokens_execute_position(
             [a EXCEPT !.bonding_curve = cu.bc,
                       !.token_launch.circulating_supply = @ - amount],
             seller, proceeds, fee,
             SellPositionUpdate(a.user_position[seller], amount, proceeds - fee))

\* SellTokens::execute, lines 419-479: the checks, tokens to the curve, SOL
\* from the vault to the seller and the fee recipient
SellTokens_execute_transfers(a, seller, amount, proceeds, fee, chk) ==
    IF chk # "Ok" THEN Done(chk, a, proceeds, fee)
    ELSE IF \/ checked_add(a.curve_token_account, amount).err # "Ok"
            \/ checked_sub(a.sol_vault, proceeds).err # "Ok"
    THEN Done("TransferFailed", a, proceeds, fee)
    ELSE SellTokens_execute_curve(
             [a EXCEPT !.sol_vault = @ - proceeds,
                       !.curve_token_account = @ + amount],
             seller, amount, proceeds, fee,
             SellCurveUpdate(a.bonding_curve, amount, proceeds))

\* SellTokens::execute, lines 408-417: fee and net proceeds
SellTokens_execute_fee(a, seller, amount, min_sol_output, proceeds, fee) ==
    IF fee.err # "Ok" THEN Done(fee.err, a, proceeds, 0)
    ELSE IF checked_sub(proceeds, fee.val).err # "Ok"
    THEN Done("MathOverflow", a, proceeds, fee.val)
    ELSE SellTokens_execute_transfers(
             a, seller, amount, proceeds, fee.val,
             SellChecks(a.bonding_curve, proceeds, proceeds - fee.val, min_sol_output))

\* SellTokens::execute, lines 401-406: proceeds from the bonding curve
SellTokens_execute_proceeds(a, seller, amount, min_sol_output, proceeds) ==
    IF proceeds.err # "Ok" THEN Done(proceeds.err, a, 0, 0)
    ELSE SellTokens_execute_fee(a, seller, amount, min_sol_output, proceeds.val,
                                PlatformFee(proceeds.val, a.config.platform_fee_bps))

\* SellTokens::execute, lines 385-399: the price is read and, if fresh, stored
SellTokens_execute_price(a, seller, amount, min_sol_output, rp) ==
    IF rp.err # "Ok" THEN Done(rp.err, a, 0, 0)
    ELSE SellTokens_execute_proceeds(
             [a EXCEPT !.bonding_curve = rp.bc], seller, amount, min_sol_output,
             calculate_sell_price(rp.bc.tokens_sold, amount, rp.price))

\* SellTokens::execute
SellTokens_execute(a, seller, amount, min_sol_output, feed) ==
    IF ~(amount > 0) THEN Done("InvalidAmount", a, 0, 0)
    ELSE IF ~(a.user_position[seller].token_amount >= amount)
    THEN Done("InsufficientBalance", a, 0, 0)
    ELSE SellTokens_execute_price(a, seller, amount, min_sol_output,
                                  ReadPrice(a.bonding_curve, feed))

\* GetBuyQuote::get_quote: cost, spot price and slippage, or the first error
GetBuyQuote_get_quote(a, amount) ==
    LET bc == a.bonding_curve
        cost == calculate_buy_price(bc.tokens_sold, amount, bc.sol_price_usd)
        spot_price == get_spot_price(bc.tokens_sold, bc.sol_price_usd)
        slippage == calculate_slippage(bc.tokens_sold, amount, bc.sol_price_usd)
    IN  IF cost.err # "Ok" THEN Done(cost.err, a, 0, 0)
        ELSE IF spot_price.err # "Ok" THEN Done(spot_price.err, a, 0, 0)
        ELSE IF slippage.err # "Ok" THEN Done(slippage.err, a, 0, 0)
        ELSE Done("Ok", a, cost.val, 0)

\* GetSpotPrice::get_current_price
GetSpotPrice_get_current_price(a) ==
    LET spot_price == get_spot_price(a.bonding_curve.tokens_sold,
                                     a.bonding_curve.sol_price_usd)
    IN  IF spot_price.err # "Ok" THEN Done(spot_price.err, a, 0, 0)
        ELSE Done("Ok", a, spot_price.val, 0)

---------------------------------------------------------------------------
(* token_creation.rs *)

\* InitializeLaunchpad::initialize
InitializeLaunchpad_initialize(platform_fee_bps, fee_recipient) ==
    [authority |-> "admin", fee_recipient |-> fee_recipient,
     platform_fee_bps |-> platform_fee_bps]

\* CreateTokenLaunch::create: the TokenLaunch account
CreateTokenLaunch_token_launch(metadata_uri) ==
    [creator |-> Creator, metadata_uri |-> metadata_uri,
     total_supply |-> TOTAL_SUPPLY, circulating_supply |-> 0, is_active |-> TRUE]

\* CreateTokenLaunch::create: the BondingCurve account
CreateTokenLaunch_bonding_curve(sol_price_usd) ==
    [sol_reserve |-> 0, token_reserve |-> CURVE_SUPPLY, tokens_sold |-> 0,
     sol_price_usd |-> sol_price_usd, total_volume |-> 0, trade_count |-> 0,
     is_graduated |-> FALSE]

\* UpdateFeeRecipient: constraint, then update_fee_recipient
UpdateFeeRecipient_update_fee_recipient(a, authority, new_fee_recipient) ==
    IF a.config.authority # authority THEN Done("Unauthorized", a, 0, 0)
    ELSE Done("Ok", [a EXCEPT !.config.fee_recipient = new_fee_recipient], 0, 0)

\* UpdateTokenLaunch: constraint, then toggle_active
UpdateTokenLaunch_toggle_active(a, creator) ==
    IF a.token_launch.creator # creator THEN Done("Unauthorized", a, 0, 0)
    ELSE Done("Ok", [a EXCEPT !.token_launch.is_active = ~a.token_launch.is_active], 0, 0)

\* UpdateTokenLaunch: constraint, then update_metadata_uri (a URI is its length)
UpdateTokenLaunch_update_metadata_uri(a, creator, new_uri) ==
    IF a.token_launch.creator # creator THEN Done("Unauthorized", a, 0, 0)
    ELSE IF ~(new_uri <= MAX_URI_LEN) THEN Done("UriTooLong", a, 0, 0)
    ELSE Done("Ok", [a EXCEPT !.token_launch.metadata_uri = new_uri], 0, 0)

---------------------------------------------------------------------------
(* liquidity.rs *)

\* variant: the withdrawal reopens the curve
WithdrawLiquidity_execute_reopening(a, authority) ==
    IF a.token_launch.creator # authority THEN Done("Unauthorized", a, 0, 0)
    ELSE IF ~a.bonding_curve.is_graduated THEN Done("NotGraduated", a, 0, 0)
    ELSE Done("Ok", [a EXCEPT !.sol_vault = 0, !.curve_token_account = 0,
                              !.bonding_curve.is_graduated = FALSE],
              a.sol_vault, 0)

\* variant: the withdrawal also takes the SOL out of the curve's books
WithdrawLiquidity_execute_draining(a, authority) ==
    IF a.token_launch.creator # authority THEN Done("Unauthorized", a, 0, 0)
    ELSE IF ~a.bonding_curve.is_graduated THEN Done("NotGraduated", a, 0, 0)
    ELSE Done("Ok", [a EXCEPT !.sol_vault = 0, !.curve_token_account = 0,
                              !.bonding_curve.sol_reserve = 0],
              a.sol_vault, 0)

\* variant: the creator withdraws whether the curve is graduated or not
WithdrawLiquidity_execute_ungated(a, authority) ==
    IF a.token_launch.creator # authority THEN Done("Unauthorized", a, 0, 0)
    ELSE Done("Ok", [a EXCEPT !.sol_vault = 0, !.curve_token_account = 0],
              a.sol_vault, 0)

\* WithdrawLiquidity: constraints, then execute
WithdrawLiquidity_execute(a, authority) ==
    IF a.token_launch.creator # authority THEN Done("Unauthorized", a, 0, 0)
    ELSE IF ~a.bonding_curve.is_graduated THEN Done("NotGraduated", a, 0, 0)
    ELSE LET sol_balance == a.sol_vault
             token_balance == a.curve_token_account
         IN  Done("Ok", [a EXCEPT !.sol_vault = a.sol_vault - sol_balance,
                                  !.curve_token_account =
                                      a.curve_token_account - token_balance],
                  sol_balance, 0)

---------------------------------------------------------------------------
(* Inputs *)

\* platform_fee_bps given to initialize_launchpad
FeeBps == {0, MAX_FEE_BPS}

\* SOL prices in USD (USD_SCALE units)
Rates == {100, 200}

\* sol_price_usd given to create_token_launch
InitialPrice == 100

\* Pyth price updates: fresh at both rates, fresh without a price, stale
Feeds == { [price |-> 1000, exponent |-> -3, age |-> MAX_STALENESS],
           [price |-> 2, exponent |-> 0, age |-> 0],
           [price |-> 0, exponent |-> -2, age |-> 0],
           [price |-> 200, exponent |-> -2, age |-> MAX_STALENESS + 1] }

\* nothing, part of a token, a token, a token and a part, the whole curve, more
TradeAmounts == {0, 1, ONE_TOKEN, ONE_TOKEN + 1, CURVE_SUPPLY, CURVE_SUPPLY + 1}

\* max_sol_cost of a buy, min_sol_output of a sell
SolBounds == {0, U64_MAX}

UriLengths == {MAX_URI_LEN, MAX_URI_LEN + 1}

NoCalc == [fn |-> "none", tokens_sold |-> 0, amount |-> 0, sol_price_usd |-> 0,
           sol_reserve |-> 0, is_graduated |-> FALSE, res |-> Ok(0)]

NoPosition == [initialized |-> FALSE, token_amount |-> 0, sol_invested |-> 0,
               sol_received |-> 0, buy_count |-> 0, sell_count |-> 0]

\* no instruction is being reported
NoOutcome == [op |-> "none", signer |-> "none", err |-> "Ok", amount |-> 0,
              bound |-> 0, value |-> 0, fee |-> 0]

Outcome(op, signer, r, amount, bound) ==
    [op |-> op, signer |-> signer, err |-> r.err, amount |-> amount,
     bound |-> bound, value |-> r.value, fee |-> r.fee]

---------------------------------------------------------------------------
(* The program: state after initialize_launchpad and create_token_launch *)

Init ==
    /\ \E fee \in FeeBps : config = InitializeLaunchpad_initialize(fee, "treasury")
    /\ token_launch = CreateTokenLaunch_token_launch(MAX_URI_LEN)
    /\ bonding_curve = CreateTokenLaunch_bonding_curve(InitialPrice)
    /\ user_position = [u \in Users |-> NoPosition]
    /\ sol_vault = 0
    /\ curve_token_account = TOTAL_SUPPLY
    /\ outcome = NoOutcome
    /\ calc = NoCalc

\* the ledger processes one instruction at a time: its accounts are persisted
\* or discarded, and its result is reported
Apply(r, op, signer, amount, bound) ==
    LET c == Committed(Accounts, r)
    IN  /\ outcome = NoOutcome
        /\ config' = c.config
        /\ token_launch' = c.token_launch
        /\ bonding_curve' = c.bonding_curve
        /\ user_position' = c.user_position
        /\ sol_vault' = c.sol_vault
        /\ curve_token_account' = c.curve_token_account
        /\ outcome' = Outcome(op, signer, r, amount, bound)
        /\ UNCHANGED calc

\* a trade is explored while fewer than MaxTrades have been committed
Trade(r, op, signer, amount, bound) ==
    /\ outcome = NoOutcome
    /\ r.err = "Ok" => bonding_curve.trade_count < MaxTrades
    /\ Apply(r, op, signer, amount, bound)

\* account validation, then the handler
BuyTokens_instruction(a, pre, buyer, amount, max_sol_cost, feed) ==
    IF pre # "Ok" THEN Done(pre, a, 0, 0)
    ELSE BuyTokens_execute(a, buyer, amount, max_sol_cost, feed)

SellTokens_instruction(a, pre, seller, amount, min_sol_output, feed) ==
    IF pre # "Ok" THEN Done(pre, a, 0, 0)
    ELSE SellTokens_execute(a, seller, amount, min_sol_output, feed)

buy_tokens(buyer, amount, max_sol_cost, feed) ==
    Trade(BuyTokens_instruction(Accounts, BuyTokens_constraints(Accounts),
                                buyer, amount, max_sol_cost, feed),
          "buy_tokens", buyer, amount, max_sol_cost)

sell_tokens(seller, amount, min_sol_output, feed) ==
    Trade(SellTokens_instruction(Accounts, SellTokens_constraints(Accounts, seller),
                                 seller, amount, min_sol_output, feed),
          "sell_tokens", seller, amount, min_sol_output)

get_buy_quote(amount) ==
    Apply(GetBuyQuote_get_quote(Accounts, amount), "get_buy_quote", "none", amount, 0)

get_spot_price_view ==
    Apply(GetSpotPrice_get_current_price(Accounts), "get_spot_price", "none", 0, 0)

toggle_token_launch_active(creator) ==
    Apply(UpdateTokenLaunch_toggle_active(Accounts, creator),
          "toggle_token_launch_active", creator, 0, 0)

update_metadata_uri(creator, new_uri) ==
    Apply(UpdateTokenLaunch_update_metadata_uri(Accounts, creator, new_uri),
          "update_metadata_uri", creator, 0, 0)

update_fee_recipient(authority, new_fee_recipient) ==
    Apply(UpdateFeeRecipient_update_fee_recipient(Accounts, authority, new_fee_recipient),
          "update_fee_recipient", authority, 0, 0)

withdraw_liquidity(authority) ==
    Apply(WithdrawLiquidity_execute(Accounts, authority), "withdraw_liquidity",
          authority, 0, 0)

\* the client has the result; the ledger takes the next instruction
ResultReturned ==
    /\ outcome # NoOutcome
    /\ outcome' = NoOutcome
    /\ UNCHANGED <<config, token_launch, bonding_curve, user_position, sol_vault,
                   curve_token_account, calc>>

Next ==
    \/ \E u \in Users, amount \in TradeAmounts, b \in SolBounds, f \in Feeds :
          buy_tokens(u, amount, b, f)
    \/ \E u \in Users, amount \in TradeAmounts, b \in SolBounds, f \in Feeds :
          sell_tokens(u, amount, b, f)
    \/ \E amount \in TradeAmounts : get_buy_quote(amount)
    \/ get_spot_price_view
    \/ \E s \in {Creator, "alice"} : toggle_token_launch_active(s)
    \/ \E s \in {Creator, "alice"}, uri \in UriLengths : update_metadata_uri(s, uri)
    \/ \E s \in {"admin", "alice"}, fr \in Recipients : update_fee_recipient(s, fr)
    \/ \E s \in {Creator, "alice"} : withdraw_liquidity(s)
    \/ ResultReturned

Spec == Init /\ [][Next]_vars

---------------------------------------------------------------------------
(* Trading rounds at a constant exchange rate and no platform fee *)

\* committed trades explored in a round
CycleTrades == MaxTrades + 3
\* a base unit, a token less a base unit, a token
CycleAmounts == {1, ONE_TOKEN - 1, ONE_TOKEN}
\* the feed reports the price the curve was created with
CycleFeed == CHOOSE f \in Feeds :
                 /\ is_price_fresh(f, MAX_STALENESS)
                 /\ get_sol_price_usd(f) = Ok(InitialPrice)

InitCycle ==
    /\ config = InitializeLaunchpad_initialize(0, "treasury")
    /\ token_launch = CreateTokenLaunch_token_launch(MAX_URI_LEN)
    /\ bonding_curve = CreateTokenLaunch_bonding_curve(InitialPrice)
    /\ user_position = [u \in Users |-> NoPosition]
    /\ sol_vault = 0
    /\ curve_token_account = TOTAL_SUPPLY
    /\ outcome = NoOutcome
    /\ calc = NoCalc

\* bob trades first, alice after him: her trades are consecutive
CycleTrade(r, op, signer, amount, bound) ==
    /\ outcome = NoOutcome
    /\ signer = "bob" => ~user_position["alice"].initialized
    /\ r.err = "Ok" => bonding_curve.trade_count < CycleTrades
    /\ Apply(r, op, signer, amount, bound)

cycle_buy_tokens(buyer, amount) ==
    CycleTrade(BuyTokens_instruction(Accounts, BuyTokens_constraints(Accounts),
                                     buyer, amount, U64_MAX, CycleFeed),
               "buy_tokens", buyer, amount, U64_MAX)

cycle_sell_tokens(seller, amount) ==
    CycleTrade(SellTokens_instruction(Accounts, SellTokens_constraints(Accounts, seller),
                                      seller, amount, 0, CycleFeed),
               "sell_tokens", seller, amount, 0)

NextCycle ==
    \/ \E u \in Users, amount \in CycleAmounts : cycle_buy_tokens(u, amount)
    \/ \E u \in Users, amount \in CycleAmounts : cycle_sell_tokens(u, amount)
    \/ ResultReturned

SpecCycle == InitCycle /\ [][NextCycle]_vars

---------------------------------------------------------------------------
(* A trader's quote, another trader's trades, then the trader's buy. The
   quote the client holds is kept in calc *)

QuoteAmounts == {ONE_TOKEN, CURVE_SUPPLY}
\* feeds that give the trade a price: fresh with a price, or stale
QuoteFeeds == { f \in Feeds : is_price_fresh(f, MAX_STALENESS) => get_sol_price_usd(f).err = "Ok" }

InitQuote == Init

\* the view returns the quote and the client keeps it
hold_buy_quote(amount) ==
    LET r == GetBuyQuote_get_quote(Accounts, amount)
    IN  /\ outcome = NoOutcome
        /\ calc.fn \in {"none", "get_buy_quote"}
        /\ outcome' = Outcome("get_buy_quote", "alice", r, amount, 0)
        /\ calc' = [fn |-> "get_buy_quote",
                    tokens_sold |-> bonding_curve.tokens_sold,
                    amount |-> amount,
                    sol_price_usd |-> bonding_curve.sol_price_usd,
                    sol_reserve |-> bonding_curve.sol_reserve,
                    is_graduated |-> bonding_curve.is_graduated,
                    res |-> IF r.err = "Ok" THEN Ok(r.value) ELSE Err(r.err)]
        /\ UNCHANGED <<config, token_launch, bonding_curve, user_position, sol_vault,
                       curve_token_account>>

\* the bound a client derives from its quote: the quoted cost and the fee on it
QuotedBound == calc.res.val + PlatformFee(calc.res.val, config.platform_fee_bps).val

\* the trader buys the quoted amount, bounded by the quote or not at all
buy_quoted(max_sol_cost, feed) ==
    /\ calc.fn = "get_buy_quote"
    /\ calc.res.err = "Ok"
    /\ buy_tokens("alice", calc.amount, max_sol_cost, feed)

NextQuote ==
    \/ \E amount \in QuoteAmounts : hold_buy_quote(amount)
    \/ \E amount \in QuoteAmounts, f \in QuoteFeeds : buy_tokens("bob", amount, U64_MAX, f)
    \/ \E amount \in QuoteAmounts, f \in QuoteFeeds : sell_tokens("bob", amount, 0, f)
    \/ \E b \in {QuotedBound, U64_MAX}, f \in QuoteFeeds : buy_quoted(b, f)
    \/ ResultReturned

SpecQuote == InitQuote /\ [][NextQuote]_vars

---------------------------------------------------------------------------
(* The calculator and the graduation predicate on arbitrary inputs *)

\* whole tokens and their neighbours, up to one base unit above the curve
CalcSupplies == { k * ONE_TOKEN + d : k \in 0 .. CurveTokens, d \in {0, 1, ONE_TOKEN - 1} }
                    \cap (0 .. (CURVE_SUPPLY + 1))
CalcAmounts == CalcSupplies
CalcRates == {0} \cup Rates
\* reserves on both sides of the graduation threshold at each rate, and the
\* largest reserve
CalcReserves == {0, U64_MAX} \cup { (GRADUATION_USD * USD_SCALE * LAMPORTS_PER_SOL) \div p - d :
                           p \in Rates, d \in {0, 1} }

\* a call not yet made, with its arguments
CalcInputs == [fn : {"input"}, tokens_sold : CalcSupplies, amount : CalcAmounts,
               sol_price_usd : CalcRates, sol_reserve : CalcReserves,
               is_graduated : BOOLEAN, res : {Ok(0)}]

InitCalc ==
    /\ config = InitializeLaunchpad_initialize(0, "treasury")
    /\ token_launch = CreateTokenLaunch_token_launch(MAX_URI_LEN)
    /\ bonding_curve = CreateTokenLaunch_bonding_curve(InitialPrice)
    /\ user_position = [u \in Users |-> NoPosition]
    /\ sol_vault = 0
    /\ curve_token_account = TOTAL_SUPPLY
    /\ outcome = NoOutcome
    /\ calc \in CalcInputs

Call(fn, res) ==
    /\ calc.fn # "none"
    /\ calc' = [calc EXCEPT !.fn = fn, !.res = res]
    /\ UNCHANGED <<config, token_launch, bonding_curve, user_position, sol_vault,
                   curve_token_account, outcome>>

\* the curve account the graduation predicate is evaluated on
CalcCurve == [CreateTokenLaunch_bonding_curve(calc.sol_price_usd) EXCEPT
                 !.tokens_sold = calc.tokens_sold,
                 !.sol_reserve = calc.sol_reserve,
                 !.is_graduated = calc.is_graduated]

CallBuyPrice ==
    Call("calculate_buy_price",
         calculate_buy_price(calc.tokens_sold, calc.amount, calc.sol_price_usd))

CallSellPrice ==
    Call("calculate_sell_price",
         calculate_sell_price(calc.tokens_sold, calc.amount, calc.sol_price_usd))

CallSpotPrice ==
    Call("get_spot_price", get_spot_price(calc.tokens_sold, calc.sol_price_usd))

CallSlippage ==
    Call("calculate_slippage",
         calculate_slippage(calc.tokens_sold, calc.amount, calc.sol_price_usd))

CallUsdRaised ==
    Call("calculate_usd_raised",
         calculate_usd_raised(calc.sol_reserve, calc.sol_price_usd))

CallShouldGraduate ==
    Call("should_graduate", Ok(should_graduate(CalcCurve)))

NextCalc ==
    \/ CallBuyPrice
    \/ CallSellPrice
    \/ CallSpotPrice
    \/ CallSlippage
    \/ CallUsdRaised
    \/ CallShouldGraduate

SpecCalc == InitCalc /\ [][NextCalc]_vars

---------------------------------------------------------------------------
(* The program and the calculator together: either the calculator is called
   on arbitrary inputs (calc holds them), or the program runs (calc = NoCalc) *)

InitAll ==
    /\ \E fee \in FeeBps : config = InitializeLaunchpad_initialize(fee, "treasury")
    /\ token_launch = CreateTokenLaunch_token_launch(MAX_URI_LEN)
    /\ bonding_curve = CreateTokenLaunch_bonding_curve(InitialPrice)
    /\ user_position = [u \in Users |-> NoPosition]
    /\ sol_vault = 0
    /\ curve_token_account = TOTAL_SUPPLY
    /\ outcome = NoOutcome
    /\ calc \in CalcInputs \cup {NoCalc}

NextAll ==
    \/ NextCalc
    \/ (calc = NoCalc /\ Next)

SpecAll == InitAll /\ [][NextAll]_vars

---------------------------------------------------------------------------
(* Properties *)

Trades == {"buy_tokens", "sell_tokens"}

\* a step that processes an instruction
Processed(ops) == outcome = NoOutcome /\ outcome'.op \in ops

AccountsUnchanged ==
    UNCHANGED <<config, token_launch, bonding_curve, user_position, sol_vault,
                curve_token_account>>

CurveBooksUnchanged ==
    /\ bonding_curve'.tokens_sold = bonding_curve.tokens_sold
    /\ bonding_curve'.sol_reserve = bonding_curve.sol_reserve
    /\ bonding_curve'.token_reserve = bonding_curve.token_reserve

\* C1: should_graduate returns true exactly when the curve is not graduated,
\* tokens_sold >= CURVE_SUPPLY and floor(sol_reserve * sol_price_usd /
\* LAMPORTS_PER_SOL) >= GRADUATION_USD * USD_SCALE; with only one of the two
\* conditions, or already graduated, it returns false.
C1_GraduationExact ==
    calc.fn = "should_graduate" =>
        (calc.res.val <=>
            /\ ~calc.is_graduated
            /\ calc.tokens_sold >= CURVE_SUPPLY
            /\ MulDiv(calc.sol_reserve, calc.sol_price_usd, LAMPORTS_PER_SOL)
                   >= GRADUATION_USD * USD_SCALE)

\* should_graduate returned true on a sold-out curve exactly at the threshold
C1_Witness ==
    /\ calc.fn = "should_graduate"
    /\ calc.res.val
    /\ MulDiv(calc.sol_reserve, calc.sol_price_usd, LAMPORTS_PER_SOL)
           = GRADUATION_USD * USD_SCALE

\* C2: is_graduated is a one-way flag: once true, no instruction (buy, sell,
\* quote, toggle active, metadata update, fee recipient update, withdraw
\* liquidity) sets it back to false.
C2_GraduatedOneWay ==
    [][bonding_curve.is_graduated => bonding_curve'.is_graduated]_vars

\* the creator withdrew the liquidity of a graduated curve
C2_Witness ==
    /\ bonding_curve.is_graduated
    /\ outcome.op = "withdraw_liquidity"
    /\ outcome.err = "Ok"

\* the error Anchor's account validation reports for a trade on a graduated
\* curve
GraduatedRejection(op, signer) ==
    IF op = "sell_tokens" /\ ~user_position[signer].initialized
    THEN "AccountNotInitialized"
    ELSE IF ~token_launch.is_active THEN "TradingInactive"
    ELSE "CurveGraduated"

\* C3 (as amended): every buy_tokens and sell_tokens submitted while
\* is_graduated is true is rejected: with CurveGraduated when the launch is
\* active and the instruction's accounts exist, with TradingInactive when the
\* launch is inactive, with AccountNotInitialized when the seller has no
\* position; and from graduation on no step changes tokens_sold, sol_reserve
\* or token_reserve.
C3_GraduatedNoTrading ==
    [][bonding_curve.is_graduated =>
          /\ CurveBooksUnchanged
          /\ Processed(Trades) =>
                outcome'.err = GraduatedRejection(outcome'.op, outcome'.signer)]_vars

\* a holder's sell was rejected with CurveGraduated
C3_Witness ==
    /\ bonding_curve.is_graduated
    /\ outcome.op = "sell_tokens"
    /\ outcome.err = "CurveGraduated"

\* C3 as stated: every trade on a graduated curve is rejected with
\* CurveGraduated
C3_Original ==
    [][(bonding_curve.is_graduated /\ Processed(Trades)) =>
          /\ outcome'.err = "CurveGraduated"
          /\ CurveBooksUnchanged]_vars

\* C4: in every reachable state 0 <= tokens_sold <= CURVE_SUPPLY, and a
\* committed sell removes exactly its amount, which is no more than the
\* tokens_sold before it.
C4_TokensSoldBounded ==
    /\ [](bonding_curve.tokens_sold \in 0 .. CURVE_SUPPLY)
    /\ [][(Processed({"sell_tokens"}) /\ outcome'.err = "Ok") =>
             /\ outcome'.amount <= bonding_curve.tokens_sold
             /\ bonding_curve'.tokens_sold
                    = bonding_curve.tokens_sold - outcome'.amount]_vars

\* a committed sell returned every token sold so far
C4_Witness ==
    /\ outcome.op = "sell_tokens"
    /\ outcome.err = "Ok"
    /\ outcome.amount > 0
    /\ bonding_curve.tokens_sold = 0

\* C5 (as amended): sol_reserve is never negative: a sell whose gross
\* proceeds exceed sol_reserve is rejected and changes nothing, with
\* SlippageExceeded when its net proceeds are below min_sol_output and with
\* InsufficientLiquidity otherwise; after a committed sell sol_reserve is its
\* previous value minus the proceeds.
C5_ReserveNeverNegative ==
    /\ [](bonding_curve.sol_reserve >= 0)
    /\ [][Processed({"sell_tokens"}) =>
             /\ outcome'.value > bonding_curve.sol_reserve =>
                   /\ AccountsUnchanged
                   /\ outcome'.err =
                         IF outcome'.value - outcome'.fee < outcome'.bound
                         THEN "SlippageExceeded" ELSE "InsufficientLiquidity"
             /\ outcome'.err = "Ok" =>
                   bonding_curve'.sol_reserve
                       = bonding_curve.sol_reserve - outcome'.value]_vars

\* a sell at a lower SOL price than the buys was rejected for its proceeds
C5_Witness ==
    /\ outcome.op = "sell_tokens"
    /\ outcome.err = "InsufficientLiquidity"
    /\ outcome.value > bonding_curve.sol_reserve
    /\ bonding_curve.sol_reserve > 0

\* C5 as stated: such a sell is rejected with InsufficientLiquidity
C5_Original ==
    [][(Processed({"sell_tokens"}) /\ outcome'.value > bonding_curve.sol_reserve) =>
          /\ outcome'.err = "InsufficientLiquidity"
          /\ AccountsUnchanged]_vars

\* C6: tokens_sold, sol_reserve, token_reserve and is_graduated change only
\* through a committed buy or a committed sell: every other instruction
\* (quotes, toggle, metadata and fee recipient updates, withdraw_liquidity),
\* every rejected trade and every call of a pricing function leaves them
\* unchanged.
C6_OnlyTradesMoveTheCurve ==
    [][~(outcome'.op \in Trades /\ outcome'.err = "Ok") =>
          /\ CurveBooksUnchanged
          /\ bonding_curve'.is_graduated = bonding_curve.is_graduated]_vars

\* the vault of a graduated curve was emptied and the curve still records
\* its reserve
C6_Witness ==
    /\ outcome.op = "withdraw_liquidity"
    /\ outcome.err = "Ok"
    /\ outcome.value > 0
    /\ sol_vault = 0
    /\ bonding_curve.sol_reserve > 0

\* C7: a buy_tokens or sell_tokens that returns an error leaves every field
\* of the curve, the launch's circulating_supply, the user positions, the
\* vault and the curve's token account as they were before it, also when the
\* handler had already stored a fresh oracle price.
C7_FailedTradeChangesNothing ==
    [][(Processed(Trades) /\ outcome'.err # "Ok") => AccountsUnchanged]_vars

\* a buy priced at a fresh oracle price other than the stored one was
\* rejected for its cost
C7_Witness ==
    /\ outcome.op = "buy_tokens"
    /\ outcome.err = "SlippageExceeded"
    /\ outcome.value # calculate_buy_price(bonding_curve.tokens_sold, outcome.amount,
                                           bonding_curve.sol_price_usd).val

\* C8: for every tokens_sold s, amount with 0 < amount <= s and exchange
\* rate, calculate_sell_price(s, amount, rate) returns exactly what
\* calculate_buy_price(s - amount, amount, rate) returns.
C8_BuySellSymmetry ==
    (calc.fn = "calculate_sell_price" /\ 0 < calc.amount
        /\ calc.amount <= calc.tokens_sold) =>
        calc.res = calculate_buy_price(calc.tokens_sold - calc.amount, calc.amount,
                                       calc.sol_price_usd)

\* a sale of whole tokens from a curve partly sold was priced
C8_Witness ==
    /\ calc.fn = "calculate_sell_price"
    /\ calc.amount >= ONE_TOKEN
    /\ calc.tokens_sold > calc.amount
    /\ calc.tokens_sold <= CURVE_SUPPLY
    /\ calc.sol_price_usd > 0
    /\ calc.res.err = "Ok"
    /\ calc.res.val > 1

\* C9: for every tokens_sold, amount > 0 with tokens_sold + amount <=
\* CURVE_SUPPLY and positive exchange rate, calculate_buy_price returns a
\* cost of at least 1 lamport.
C9_NoFreeTrade ==
    (calc.fn = "calculate_buy_price" /\ calc.amount > 0
        /\ calc.tokens_sold + calc.amount <= CURVE_SUPPLY
        /\ calc.sol_price_usd > 0) =>
        (calc.res.err = "Ok" /\ calc.res.val >= 1)

\* part of a token, whose computed cost is zero, was priced at 1 lamport
C9_Witness ==
    /\ calc.fn = "calculate_buy_price"
    /\ 0 < calc.amount
    /\ calc.amount < ONE_TOKEN
    /\ calc.sol_price_usd > 0
    /\ calc.res = Ok(1)

\* the error of a trade instruction called with amount = 0
ZeroAmountRejection(op, signer) ==
    IF op = "sell_tokens" /\ ~user_position[signer].initialized
    THEN "AccountNotInitialized"
    ELSE IF op \in Trades /\ ~token_launch.is_active THEN "TradingInactive"
    ELSE IF op \in Trades /\ bonding_curve.is_graduated THEN "CurveGraduated"
    ELSE "InvalidAmount"

\* C10 (as amended): calculate_buy_price, calculate_sell_price and
\* get_buy_quote called with amount = 0 return InvalidAmount for every curve
\* state and exchange rate; buy_tokens and sell_tokens called with amount = 0
\* are always rejected and change no state, with InvalidAmount when the
\* launch is active, the curve is not graduated and the seller has a
\* position, and with the error of the failed account validation otherwise.
C10_ZeroAmountRejected ==
    [][/\ (calc'.fn \in {"calculate_buy_price", "calculate_sell_price"}
              /\ calc'.amount = 0) => calc'.res = Err("InvalidAmount")
       /\ (Processed(Trades \cup {"get_buy_quote"}) /\ outcome'.amount = 0) =>
              /\ outcome'.err = ZeroAmountRejection(outcome'.op, outcome'.signer)
              /\ AccountsUnchanged]_vars

\* a holder's sell of nothing was rejected with InvalidAmount
C10_Witness ==
    /\ outcome.op = "sell_tokens"
    /\ outcome.amount = 0
    /\ outcome.err = "InvalidAmount"
    /\ user_position[outcome.signer].token_amount > 0

\* C10 as stated: amount = 0 always returns InvalidAmount
C10_Original ==
    /\ (calc.fn \in {"calculate_buy_price", "calculate_sell_price"}
           /\ calc.amount = 0) => calc.res = Err("InvalidAmount")
    /\ (outcome.op \in Trades \cup {"get_buy_quote"} /\ outcome.amount = 0) =>
           outcome.err = "InvalidAmount"

\* the error of a trade instruction whose account validation fails, or
\* `otherwise`
Rejection(op, signer, otherwise) ==
    IF op = "sell_tokens" /\ ~user_position[signer].initialized
    THEN "AccountNotInitialized"
    ELSE IF op \in Trades /\ ~token_launch.is_active THEN "TradingInactive"
    ELSE IF op \in Trades /\ bonding_curve.is_graduated THEN "CurveGraduated"
    ELSE otherwise

C12_Original ==
    /\ (calc.fn \in {"calculate_buy_price", "calculate_sell_price", "get_spot_price"}
           /\ calc.sol_price_usd = 0
           /\ calc.res.err \notin {"InvalidAmount", "InsufficientSupply"})
          => calc.res.err = "InvalidPrice"
    /\ (outcome.op \in Trades \cup {"get_buy_quote", "get_spot_price"}
           /\ outcome.err = "Ok")
          => bonding_curve.sol_price_usd > 0

\* get_spot_price with sol_price_usd = 0 returned the largest u64 as a price
C12_Witness ==
    /\ calc.fn = "get_spot_price"
    /\ calc.sol_price_usd = 0
    /\ calc.res = Ok(U64_MAX)

\* C13 as stated: calculate_usd_raised(sol_reserve, sol_price_usd) either
\* returns exactly floor(sol_reserve * sol_price_usd / LAMPORTS_PER_SOL) or
\* fails with MathOverflow; it never returns a value reduced modulo the word
\* size.
C13_Original ==
    calc.fn = "calculate_usd_raised" =>
        \/ calc.res = Err("MathOverflow")
        \/ calc.res = Ok(MulDiv(calc.sol_reserve, calc.sol_price_usd, LAMPORTS_PER_SOL))

\* calculate_usd_raised returned Ok with less than the exact quotient
C13_Witness ==
    /\ calc.fn = "calculate_usd_raised"
    /\ calc.res.err = "Ok"
    /\ MulDiv(calc.sol_reserve, calc.sol_price_usd, LAMPORTS_PER_SOL) > U64_MAX
    /\ calc.res.val < MulDiv(calc.sol_reserve, calc.sol_price_usd, LAMPORTS_PER_SOL)

\* supplies above the one of the call, on the curve
SuppliesAbove(s) == { s2 \in 0 .. CURVE_SUPPLY : s2 > s }

\* C14 (as amended): for a fixed positive exchange rate the spot price never
\* decreases with supply: get_spot_price(s1, rate) <= get_spot_price(s2, rate)
\* for every 0 <= s1 < s2 <= CURVE_SUPPLY (supplies within the same whole
\* token have the same price).
C14_SpotPriceNonDecreasing ==
    (calc.fn = "get_spot_price" /\ calc.sol_price_usd > 0
        /\ calc.tokens_sold <= CURVE_SUPPLY) =>
        \A s2 \in SuppliesAbove(calc.tokens_sold) :
            calc.res.val <= get_spot_price(s2, calc.sol_price_usd).val

\* the spot price was taken at a supply whose successor has the same price
\* and below a supply with a higher price
C14_Witness ==
    /\ calc.fn = "get_spot_price"
    /\ calc.sol_price_usd > 0
    /\ calc.tokens_sold < CURVE_SUPPLY
    /\ calc.res = get_spot_price(calc.tokens_sold + 1, calc.sol_price_usd)
    /\ calc.res.val < get_spot_price(CURVE_SUPPLY, calc.sol_price_usd).val

\* C14 as stated: the spot price is strictly increasing in supply
C14_Original ==
    (calc.fn = "get_spot_price" /\ calc.sol_price_usd > 0
        /\ calc.tokens_sold <= CURVE_SUPPLY) =>
        \A s2 \in SuppliesAbove(calc.tokens_sold) :
            calc.res.val < get_spot_price(s2, calc.sol_price_usd).val

\* a price in USD_SCALE units converted to lamports at a rate, never 0
PriceInLamports(price_usd, sol_price_usd) ==
    MinimumPrice(MulDiv(price_usd, LAMPORTS_PER_SOL, sol_price_usd))

AveragePrice == calculate_buy_price(calc.tokens_sold, calc.amount, calc.sol_price_usd).val
                    \div calc.amount

\* the spot price at the supply of the call
SpotPrice == get_spot_price(calc.tokens_sold, calc.sol_price_usd).val

\* calculate_slippage was called with an amount that calculate_buy_price prices
SlippagePriced ==
    /\ calc.fn = "calculate_slippage"
    /\ calculate_buy_price(calc.tokens_sold, calc.amount, calc.sol_price_usd).err = "Ok"

\* C16: calculate_slippage(tokens_sold, amount, rate) returns
\* floor((avg - spot) * 10000 / spot) basis points for avg = floor(cost / amount)
\* and spot = get_spot_price(tokens_sold, rate); when avg < spot the
\* subtraction is clamped and the call succeeds with 0.
C16_SlippageFormula ==
    SlippagePriced =>
        calc.res = Ok(IF AveragePrice < SpotPrice THEN 0
                      ELSE ((AveragePrice - SpotPrice) * BPS_DENOMINATOR) \div SpotPrice)

\* a slippage was computed for an average below the spot price
C16_Witness ==
    /\ SlippagePriced
    /\ AveragePrice < SpotPrice
    /\ calc.res = Ok(0)

\* C17 as stated: for every buy with amount > 0 on the curve the average
\* executed price used by calculate_slippage (cost / amount) is not below the
\* spot price at the pre-trade supply.
C17_Original ==
    (SlippagePriced /\ calc.sol_price_usd > 0) => AveragePrice >= SpotPrice

\* the slippage of buying the whole curve at once is reported as 0, the
\* average price being below the spot price at the empty curve
C17_Witness ==
    /\ SlippagePriced
    /\ calc.sol_price_usd > 0
    /\ calc.tokens_sold = 0
    /\ calc.amount = CURVE_SUPPLY
    /\ AveragePrice < SpotPrice
    /\ calc.res = Ok(0)

\* both graduation conditions hold on the stored curve
GraduationReached ==
    /\ bonding_curve.tokens_sold >= CURVE_SUPPLY
    /\ MulDiv(bonding_curve.sol_reserve, bonding_curve.sol_price_usd, LAMPORTS_PER_SOL)
          >= GRADUATION_USD * USD_SCALE

\* C18: in every reachable state in which is_graduated is false, it is not
\* the case that both tokens_sold >= CURVE_SUPPLY and
\* sol_reserve * sol_price_usd / LAMPORTS_PER_SOL >= GRADUATION_USD * USD_SCALE
\* hold on the stored curve: the trade that makes both hold sets is_graduated
\* in the same commit.
C18_GraduationDriven ==
    ~bonding_curve.is_graduated => ~GraduationReached

\* a committed buy has sold the curve out, reached the threshold and graduated
\* the curve
C18_Witness ==
    /\ outcome.op = "buy_tokens"
    /\ outcome.err = "Ok"
    /\ GraduationReached
    /\ bonding_curve.is_graduated

\* alice's trades, consecutive in SpecCycle, have returned the curve to the
\* tokens_sold they started from: she has sold all she bought
CycleClosed ==
    /\ user_position["alice"].initialized
    /\ user_position["alice"].token_amount = 0

\* C19 as stated: a sequence of committed buys and sells at a constant
\* exchange rate and zero platform fee that ends at the tokens_sold it started
\* from pays out no more lamports in sells than were paid in by buys.
C19_Original ==
    CycleClosed =>
        user_position["alice"].sol_received <= user_position["alice"].sol_invested

\* alice bought a token in parts smaller than a token, sold it in one piece,
\* and was paid more than she paid
C19_Witness ==
    /\ CycleClosed
    /\ outcome.op = "sell_tokens"
    /\ outcome.signer = "alice"
    /\ outcome.err = "Ok"
    /\ outcome.amount = ONE_TOKEN
    /\ user_position["alice"].buy_count = 2
    /\ user_position["alice"].sol_received > user_position["alice"].sol_invested

\* the whole curve was priced from the empty curve at a positive rate
WholeCurvePriced ==
    /\ calc.fn = "calculate_buy_price"
    /\ calc.tokens_sold = 0
    /\ calc.amount = CURVE_SUPPLY
    /\ calc.sol_price_usd > 0

\* lamports converted back to USD_SCALE units at the rate of the call
CostInUsd == MulDiv(calc.res.val, calc.sol_price_usd, LAMPORTS_PER_SOL)

\* C20: buying the entire curve from tokens_sold = 0 in one call succeeds, and
\* its cost converted back at the rate of the call lies strictly between
\* START_PRICE_USD and END_PRICE_USD times the curve supply in whole tokens;
\* it lies between the 80 and 150 SOL at 150 USD per SOL that the test allows
\* for the 800M tokens of the program, taken per whole token.
C20_WholeCurveCost ==
    WholeCurvePriced =>
        /\ calc.res.err = "Ok"
        /\ START_PRICE_USD * to_token_count(CURVE_SUPPLY) < CostInUsd
        /\ CostInUsd < END_PRICE_USD * to_token_count(CURVE_SUPPLY)
        /\ 80 * 150 * to_token_count(CURVE_SUPPLY) <= 8 * CostInUsd
        /\ 8 * CostInUsd <= 150 * 150 * to_token_count(CURVE_SUPPLY)

\* the whole curve was priced, at more than the minimum price
C20_Witness ==
    /\ WholeCurvePriced
    /\ calc.res.err = "Ok"
    /\ calc.res.val > 1

\* the trader who holds a quote submits the buy
QuotedBuy ==
    /\ Processed({"buy_tokens"})
    /\ outcome'.signer = "alice"
    /\ calc.fn = "get_buy_quote"

\* cost of the submitted buy at the tokens_sold before the step and the price
\* the step leaves stored
CostAtExecution ==
    calculate_buy_price(bonding_curve.tokens_sold, outcome'.amount,
                        bonding_curve'.sol_price_usd)

\* C21 (as amended): when other trades commit between a trader's
\* get_buy_quote and that trader's buy_tokens, the buy is priced again from
\* the tokens_sold and price current at execution; it either commits with
\* cost + fee <= max_sol_cost and tokens_sold <= CURVE_SUPPLY, or fails
\* changing nothing: with SlippageExceeded when the current cost and fee exceed
\* max_sol_cost, with InsufficientLiquidity when the other trades left fewer
\* tokens than the amount, with CurveGraduated when they graduated the curve.
C21_QuoteNotTrusted ==
    [][QuotedBuy =>
          IF outcome'.err = "Ok"
          THEN /\ outcome'.value = CostAtExecution.val
               /\ outcome'.value + outcome'.fee <= outcome'.bound
               /\ bonding_curve'.tokens_sold = bonding_curve.tokens_sold + outcome'.amount
               /\ bonding_curve'.tokens_sold <= CURVE_SUPPLY
          ELSE /\ AccountsUnchanged
               /\ outcome'.err \in {"SlippageExceeded", "InsufficientLiquidity",
                                    "CurveGraduated"}
               /\ outcome'.err = "CurveGraduated" <=> bonding_curve.is_graduated
               /\ outcome'.err = "InsufficientLiquidity" =>
                      bonding_curve.token_reserve < outcome'.amount
               /\ outcome'.err = "SlippageExceeded" =>
                      outcome'.value + outcome'.fee > outcome'.bound]_vars

\* the trader's buy committed after another trader's buy, above the quoted cost
C21_Witness ==
    /\ outcome.op = "buy_tokens"
    /\ outcome.signer = "alice"
    /\ outcome.err = "Ok"
    /\ calc.fn = "get_buy_quote"
    /\ calc.amount = outcome.amount
    /\ calc.tokens_sold < bonding_curve.tokens_sold - outcome.amount
    /\ calc.res.err = "Ok"
    /\ outcome.value > calc.res.val

\* C21 as stated: the buy either commits or fails with SlippageExceeded
C21_Original ==
    [][QuotedBuy => outcome'.err \in {"Ok", "SlippageExceeded"}]_vars

\* the trade of the step was priced and is outside the caller's bound
OutsideBound ==
    /\ outcome'.value > 0
    /\ \/ outcome'.op = "buy_tokens" /\ outcome'.value + outcome'.fee > outcome'.bound
       \/ outcome'.op = "sell_tokens" /\ outcome'.value - outcome'.fee < outcome'.bound

RECURSIVE NetInvested(_)
NetInvested(users) ==
    IF users = {} THEN 0
    ELSE LET u == CHOOSE x \in users : TRUE
         IN  user_position[u].sol_invested - user_position[u].sol_received
                + NetInvested(users \ {u})

\* C23: a committed buy of amount at cost c increases sol_reserve by exactly c
\* (the platform fee is not added), tokens_sold by exactly amount and
\* trade_count by 1; a committed sell with gross proceeds p decreases
\* sol_reserve by exactly p and tokens_sold by exactly amount; no other step
\* changes sol_reserve, so that it is the sum of the costs of the committed
\* buys less the gross proceeds of the committed sells (the traders' net
\* investment, when no fee is charged).
C23_ReserveBookkeeping ==
    /\ [](config.platform_fee_bps = 0 => bonding_curve.sol_reserve = NetInvested(Users))
    /\ [][/\ (Processed({"buy_tokens"}) /\ outcome'.err = "Ok") =>
                /\ bonding_curve'.sol_reserve = bonding_curve.sol_reserve + outcome'.value
                /\ bonding_curve'.tokens_sold = bonding_curve.tokens_sold + outcome'.amount
                /\ bonding_curve'.trade_count = bonding_curve.trade_count + 1
          /\ (Processed({"sell_tokens"}) /\ outcome'.err = "Ok") =>
                /\ bonding_curve'.sol_reserve = bonding_curve.sol_reserve - outcome'.value
                /\ bonding_curve'.tokens_sold = bonding_curve.tokens_sold - outcome'.amount
          /\ ~(Processed(Trades) /\ outcome'.err = "Ok") =>
                bonding_curve'.sol_reserve = bonding_curve.sol_reserve]_vars

\* a buy that was charged a platform fee committed, and a sell after it
C23_Witness ==
    /\ outcome.op = "sell_tokens"
    /\ outcome.err = "Ok"
    /\ outcome.fee > 0
    /\ bonding_curve.sol_reserve > 0
    /\ bonding_curve.trade_count = 2

\* the price a trade with this feed is priced at, given the stored price
TradePrice(f) ==
    IF is_price_fresh(f, MAX_STALENESS) THEN get_sol_price_usd(f).val
    ELSE bonding_curve.sol_price_usd

\* the price a trade with this feed leaves stored
StoredAfter(f) ==
    bonding_curve'.sol_price_usd = TradePrice(f)

\* C24: a buy or sell executed with an oracle price at most MAX_STALENESS
\* seconds old is priced at that fresh price and stores it in sol_price_usd;
\* with a stale oracle price it is priced at the stored sol_price_usd and
\* leaves it unchanged, and fails with InvalidPrice if the stored price is 0;
\* the stored sol_price_usd is > 0 in every reachable state.
C24_OracleFallback ==
    /\ [](/\ bonding_curve.sol_price_usd > 0
          /\ \A f \in Feeds :
                ~is_price_fresh(f, MAX_STALENESS) =>
                    ReadPrice([bonding_curve EXCEPT !.sol_price_usd = 0], f).err
                        = "InvalidPrice")
    /\ [][/\ (Processed({"buy_tokens"}) /\ outcome'.err = "Ok") =>
                \A f \in Feeds :
                    buy_tokens(outcome'.signer, outcome'.amount, outcome'.bound, f) =>
                        /\ StoredAfter(f)
                        /\ outcome'.value =
                              calculate_buy_price(bonding_curve.tokens_sold,
                                                  outcome'.amount, TradePrice(f)).val
          /\ (Processed({"sell_tokens"}) /\ outcome'.err = "Ok") =>
                \A f \in Feeds :
                    sell_tokens(outcome'.signer, outcome'.amount, outcome'.bound, f) =>
                        /\ StoredAfter(f)
                        /\ outcome'.value =
                              calculate_sell_price(bonding_curve.tokens_sold,
                                                   outcome'.amount, TradePrice(f)).val]_vars

\* a sell committed at a fresh price that differs from the price the curve
\* was created with, and the price is stored
C24_Witness ==
    /\ outcome.op = "sell_tokens"
    /\ outcome.err = "Ok"
    /\ bonding_curve.sol_price_usd # InitialPrice
    /\ bonding_curve.sol_price_usd > 0

\* the liquidity was withdrawn: the curve's token account, which holds at
\* least LP_SUPPLY until then, is empty
Withdrawn == curve_token_account = 0

\* C25 (as amended): withdraw_liquidity fails, changing nothing, whenever
\* is_graduated is false: with NotGraduated when the creator calls it and with
\* Unauthorized when anyone else does; is_graduated becomes true only in a
\* committed buy, so a successful withdrawal is preceded by the buy that
\* graduated the curve, and no buy or sell commits after a withdrawal.
C25_WithdrawOnlyGraduated ==
    [][/\ (Processed({"withdraw_liquidity"}) /\ ~bonding_curve.is_graduated) =>
             /\ outcome'.err = IF outcome'.signer = token_launch.creator
                               THEN "NotGraduated" ELSE "Unauthorized"
             /\ AccountsUnchanged
       /\ (Processed({"withdraw_liquidity"}) /\ outcome'.err = "Ok") =>
             bonding_curve.is_graduated
       /\ (~bonding_curve.is_graduated /\ bonding_curve'.is_graduated) =>
             (Processed({"buy_tokens"}) /\ outcome'.err = "Ok")
       /\ (~Withdrawn /\ Withdrawn') =>
             (Processed({"withdraw_liquidity"}) /\ outcome'.err = "Ok")
       /\ (Withdrawn /\ Processed(Trades)) => outcome'.err # "Ok"]_vars

\* a trade was rejected after the liquidity of the graduated curve was withdrawn
C25_Witness ==
    /\ Withdrawn
    /\ bonding_curve.is_graduated
    /\ outcome.op \in Trades
    /\ outcome.amount > 0
    /\ outcome.err = "CurveGraduated"

\* C25 as stated: withdraw_liquidity fails with NotGraduated whenever
\* is_graduated is false
C25_Original ==
    [][(Processed({"withdraw_liquidity"}) /\ ~bonding_curve.is_graduated) =>
          outcome'.err = "NotGraduated"]_vars

\* C26: in every state reachable from the creation of the curve by any
\* sequence of buys and sells, token_reserve + tokens_sold = CURVE_SUPPLY and
\* token_launch.circulating_supply = tokens_sold.
C26_SupplyConservation ==
    /\ bonding_curve.token_reserve + bonding_curve.tokens_sold = CURVE_SUPPLY
    /\ token_launch.circulating_supply = bonding_curve.tokens_sold

\* a sell committed after a buy and left tokens in circulation
C26_Witness ==
    /\ outcome.op = "sell_tokens"
    /\ outcome.err = "Ok"
    /\ bonding_curve.tokens_sold > 0
    /\ bonding_curve.token_reserve > 0
    /\ token_launch.circulating_supply > 0

\* C27: in every reachable state where is_graduated is true,
\* tokens_sold = CURVE_SUPPLY, token_reserve = 0 and
\* sol_reserve * sol_price_usd / LAMPORTS_PER_SOL >= GRADUATION_USD * USD_SCALE:
\* the values at graduation are frozen.
C27_GraduatedValuesFrozen ==
    bonding_curve.is_graduated =>
        /\ bonding_curve.tokens_sold = CURVE_SUPPLY
        /\ bonding_curve.token_reserve = 0
        /\ MulDiv(bonding_curve.sol_reserve, bonding_curve.sol_price_usd,
                  LAMPORTS_PER_SOL) >= GRADUATION_USD * USD_SCALE

\* a sell was submitted by a holder to the graduated curve and rejected
C27_Witness ==
    /\ bonding_curve.is_graduated
    /\ outcome.op = "sell_tokens"
    /\ outcome.amount > 0
    /\ user_position[outcome.signer].token_amount >= outcome.amount
    /\ outcome.err = "CurveGraduated"

\* proceeds of selling back every token sold, at the stored price
SellBackAll ==
    calculate_sell_price(bonding_curve.tokens_sold, bonding_curve.tokens_sold,
                         bonding_curve.sol_price_usd)

\* C28 as stated: after any sequence of committed buys and sells priced at the
\* same rate, sol_reserve is at least
\* calculate_sell_price(tokens_sold, tokens_sold, rate).
C28_Original ==
    (bonding_curve.tokens_sold > 0 /\ SellBackAll.err = "Ok") =>
        bonding_curve.sol_reserve >= SellBackAll.val

\* a holder of every token sold, bought in parts smaller than a token, sells
\* them all and is refused for lack of reserve
C28_Witness ==
    /\ outcome.op = "sell_tokens"
    /\ outcome.err = "InsufficientLiquidity"
    /\ outcome.amount = bonding_curve.tokens_sold
    /\ user_position[outcome.signer].token_amount = outcome.amount
    /\ user_position[outcome.signer].buy_count = 2
    /\ outcome.value = SellBackAll.val
    /\ bonding_curve.sol_reserve < SellBackAll.val

\* cost of buying the amount of the call in two parts, the first of a
SplitCost(a) ==
    calculate_buy_price(calc.tokens_sold, a, calc.sol_price_usd).val
        + calculate_buy_price(calc.tokens_sold + a, calc.amount - a, calc.sol_price_usd).val

\* C29 as stated: for every tokens_sold s and amounts a, b > 0 with
\* s + a + b <= CURVE_SUPPLY at a fixed rate, calculate_buy_price(s, a) +
\* calculate_buy_price(s + a, b) is at least calculate_buy_price(s, a + b)
\* less 2 lamports.
C29_Original ==
    (calc.fn = "calculate_buy_price" /\ calc.res.err = "Ok" /\ calc.sol_price_usd > 0) =>
        \A a \in 1 .. (calc.amount - 1) : SplitCost(a) >= calc.res.val - 2

\* one whole token was priced from the empty curve, and its two parts, a
\* base unit less than the token and the base unit, cost the minimum each
C29_Witness ==
    /\ calc.fn = "calculate_buy_price"
    /\ calc.tokens_sold = 0
    /\ calc.amount = ONE_TOKEN
    /\ calc.sol_price_usd > 0
    /\ calc.res.err = "Ok"
    /\ SplitCost(ONE_TOKEN - 1) = 2
    /\ calc.res.val - 2 > 2

\* C30: until withdraw_liquidity runs, the lamport balance of the SOL vault is
\* at least sol_reserve after every committed buy and sell: from the first buy
\* on it is the rent-exempt minimum on top of the reserve, so that a sell that
\* passes the check sol_reserve >= proceeds is paid net proceeds and fee from
\* the vault, and never fails in the transfer.
C30_VaultCoversReserve ==
    /\ ~Withdrawn =>
          /\ sol_vault >= bonding_curve.sol_reserve
          /\ bonding_curve.trade_count > 0 =>
                sol_vault = RENT_EXEMPT_MINIMUM + bonding_curve.sol_reserve
    /\ outcome.op \in Trades => outcome.err # "TransferFailed"

\* a sell that was charged a fee was paid from the vault, which keeps the
\* rent-exempt minimum on top of a positive reserve
C30_Witness ==
    /\ ~Withdrawn
    /\ outcome.op = "sell_tokens"
    /\ outcome.err = "Ok"
    /\ outcome.fee > 0
    /\ bonding_curve.sol_reserve > 0
    /\ sol_vault = RENT_EXEMPT_MINIMUM + bonding_curve.sol_reserve

=============================================================================
